---- MODULE Spec2Model ----
(***************************************************************************)
(* The deferred publish scheduler of csv2pin_backend (src/src/index.js):   *)
(* the scheduled_pins table, the scheduler pass processScheduledPins with  *)
(* its executor processScheduledPin / handlePinError / deductUserCredits,  *)
(* and the user operations on scheduled pins (schedule, list, update,      *)
(* cancel, permanent delete), and the analytics refresh of posted pins     *)
(* (processAnalyticsSync / syncUserAnalytics and the manual sync).         *)
(*                                                                         *)
(* Time is counted in minutes.  Every awaited database call is one atomic  *)
(* step; the code that runs between two awaits runs with the step before   *)
(* it, as it does on the single JavaScript thread.                         *)
(*                                                                         *)
(* Specifications:                                                         *)
(*   Spec      two overlapping scheduler passes, one job, its owner's      *)
(*             requests (update, cancel)                                   *)
(*   SpecOps   one scheduler pass, one job, several requests of its owner  *)
(*             (update, cancel, permanent delete)                          *)
(*   SpecApi   the request handlers alone, two users, two jobs, the        *)
(*             request and its answer recorded                             *)
(*   SpecLive  the scheduler passes over a table of eleven due jobs, with  *)
(*             fairness                                                    *)
(*   SpecCalc  deductUserCredits over balances and amounts                 *)
(*   SpecStop  one scheduler pass and the shutdown signal                  *)
(*   SpecSync  the analytics refresh (timer pass and manual request) over  *)
(*             the posted pins of two users                                *)
(*   SpecStale the timer-driven analytics refresh of one user with 21      *)
(*             posted pins                                                 *)
(*   SpecRestart  one scheduler pass, one shutdown signal and the restart  *)
(*             of the process, with fairness                               *)
(*   SpecLedger one scheduler pass with a profiles table that may fail     *)
(*   SpecMix   one job under the scheduler, its owner's cancel and the     *)
(*             analytics timer                                             *)
(***************************************************************************)
EXTENDS Integers, Sequences, FiniteSets, TLC

\* ------------------------------------------------------------------ bounds
MaxTime == 70
MaxFails == 5
MaxCount == 2
MaxUserOps == 1
SchedAhead == 5
InitCredits == 2
OpsBudget == 3
ApiBudget == 2
MaxBalance == 10
MaxAmount == 10

\* ------------------------------------------------------- program constants
maxRetries == 3
BatchLimit == 10
YearMinutes == 525600
Null == -1
TwelveHours == 720
TwentyFourHours == 1440
SyncLimit == 20
ManualLimit == 50

\* The job ids of the table, and the invocations of processScheduledPins that
\* may run at once (a timer tick and a manual trigger, or two timer ticks).
Jobs == {1}
Passes == {1, 2}
Statuses == {"scheduled", "posting", "posted", "failed", "cancelled"}

\* The users: the owner of the jobs of Spec and SpecOps, and another user.
Owner == "u1"
Users == {"u1", "u2"}

VARIABLES
    now,        \* the wall clock, in minutes
    store,      \* the scheduled_pins table: job id -> row
    pass,       \* the running invocations of processScheduledPins
    userReq,    \* the user request (update, cancel, delete) between its read and its write
    credits,    \* profiles.credits_remaining of the owner
    answers,    \* history: per job, the shape of the Publish Service's answers so far
    published,  \* history: per job, the pins the Publish Service created (up to MaxCount)
    debitCount, \* history: per job, the invocations of deductUserCredits (up to MaxCount)
    userOps,    \* history: the user requests counted so far
    removed,    \* history: the ids of the rows deleted from the table
    mark,       \* history: per job, what the last user write on it was
    lastCall,   \* history: the last recorded request and its answer
    sync        \* the running analytics refresh (timer pass or manual request)

vars == <<now, store, pass, userReq, credits, answers, published, debitCount,
          userOps, removed, mark, lastCall, sync>>

\* The columns of a scheduled_pins row that the insert does not give: the
\* defaults of the table.
RowDefaults ==
    [status |-> "scheduled", retryCount |-> 0, nextRetryAt |-> Null,
     errorMessage |-> "null", creditsDeducted |-> FALSE, externalId |-> "null",
     metricsAt |-> Null,
     metrics |-> [impressions |-> Null, outbound_clicks |-> Null, saves |-> Null,
                  pin_clicks |-> Null, engagement_rate |-> Null,
                  click_through_rate |-> Null, save_rate |-> Null]]

\* The pinterest_accounts rows: each user's accounts, all with an access token
\* (an account is inserted with the token of its connection).
Accounts == [a1 |-> "u1", a2 |-> "u1", b1 |-> "u2"]

\* The account a schedule request names when it names one.
FirstAccount(user) == IF user = "u1" THEN "a1" ELSE "b1"

\* A recurrence_pattern: none, or a type and an interval.
NoPattern == [type |-> "null", interval |-> 0]

\* What a request says about recurrence: is_recurring and recurrence_pattern.
NoRecurrence == [is_recurring |-> FALSE, pattern |-> NoPattern]

\* A row of the table with all its columns.
FullRow(exists, owner, scheduled_for, hasAccount, recurrence) ==
    [exists |-> exists, owner |-> owner, status |-> RowDefaults.status,
     scheduledFor |-> scheduled_for, retryCount |-> RowDefaults.retryCount,
     nextRetryAt |-> RowDefaults.nextRetryAt,
     errorMessage |-> RowDefaults.errorMessage,
     creditsDeducted |-> RowDefaults.creditsDeducted,
     externalId |-> RowDefaults.externalId, hasAccount |-> hasAccount,
     recurrence |-> recurrence,
     account |-> IF hasAccount THEN FirstAccount(owner) ELSE "none",
     metricsAt |-> RowDefaults.metricsAt, metrics |-> RowDefaults.metrics]

\* A row of the owner without recurrence; exists = FALSE for an id with no row.
Row(exists, scheduled_for, hasAccount) ==
    FullRow(exists, Owner, scheduled_for, hasAccount, NoRecurrence)

NoRow == Row(FALSE, Null, FALSE)

IdlePass == [pc |-> "idle", batch |-> <<>>]
NoReq == [kind |-> "none", job |-> 0, user |-> Owner, sched |-> Null,
          pattern |-> NoPattern]
NoCall == [op |-> "none"]

\* No analytics refresh running.  users: the users still to refresh, each with
\* the token the pass holds for them; batch: the pins still to refresh of the
\* user being refreshed; fetched (history): the analytics requests made by the
\* run so far, each with the token it carried.
IdleSync ==
    [pc |-> "idle", kind |-> "none", users |-> <<>>, user |-> "none",
     token |-> "none", force |-> FALSE, batch |-> <<>>, fetched |-> {}]

\* The answers of the Publish Service for a job, as far as the scenarios need
\* them: `fails` failures ("F") and nothing else (then = "none"), `fails`
\* failures followed by one pin created ("S") and nothing after (then = "S"),
\* or anything else (then = "other"; "E" is a 2xx answer without an id).
NoAnswers == [fails |-> 0, then |-> "none"]
OtherAnswers == [fails |-> 0, then |-> "other"]
Answered(h, a) ==
    IF h.then = "none" /\ a = "F" /\ h.fails < MaxFails
    THEN [h EXCEPT !.fails = @ + 1]
    ELSE IF h.then = "none" /\ a = "S"
    THEN [h EXCEPT !.then = "S"]
    ELSE OtherAnswers

Max(a, b) == IF a >= b THEN a ELSE b
Min(a, b) == IF a <= b THEN a ELSE b

\* ---------------------------------------------------------------- the store
\* .update(fields).eq('id', id): writes the row if it is there, no error if not.
UpdateRow(s, id, fields) ==
    IF s[id].exists
    THEN [s EXCEPT ![id] = [f \in DOMAIN s[id] |->
                               IF f \in DOMAIN fields THEN fields[f] ELSE s[id][f]]]
    ELSE s

\* The filter without its next_retry_at condition.
IsDue_noRetryGate(row, t) ==
    /\ row.exists
    /\ row.status \in {"scheduled", "failed"}
    /\ row.scheduledFor <= t

\* The filter of the due query of processScheduledPins.
IsDue(row, t) ==
    /\ row.exists
    /\ row.status \in {"scheduled", "failed"}
    /\ row.scheduledFor <= t
    /\ (row.nextRetryAt = Null \/ row.nextRetryAt <= t)

DueSet(s, t) == {j \in DOMAIN s : IsDue(s[j], t)}

\* What the select returns of a row: the row's columns and the joined account.
Snapshot(s, j) ==
    [id |-> j, retry_count |-> s[j].retryCount,
     credits_deducted |-> s[j].creditsDeducted, token |-> s[j].hasAccount]

\* .order('scheduled_for', ascending): every order the database may give the
\* rows of `ids`, rows of equal scheduled_for in any order.
RECURSIVE Ordered(_, _)
Ordered(s, ids) ==
    IF ids = {} THEN {<<>>}
    ELSE LET firsts == {j \in ids :
                           \A k \in ids : s[j].scheduledFor <= s[k].scheduledFor}
         IN UNION {{<<j>> \o rest : rest \in Ordered(s, ids \ {j})} : j \in firsts}

\* The due query without its limit.
fetchDue_noLimit(s, t) ==
    {[i \in 1..Len(f) |-> Snapshot(s, f[i])] : f \in Ordered(s, DueSet(s, t))}

\* The due query: the due rows in order, cut to the batch limit.
fetchDue(s, t) ==
    {[i \in 1..Min(Len(f), BatchLimit) |-> Snapshot(s, f[i])] :
        f \in Ordered(s, DueSet(s, t))}

\* ------------------------------------------------------------ retry policy
\* A backoff that doubles instead of tripling.
backoffMinutes_doubling(currentRetryCount) == 5 * 2 ^ currentRetryCount

backoffMinutes(currentRetryCount) == 5 * 3 ^ currentRetryCount

\* handlePinError writing the incremented count past the cap as well.
handlePinError_countsPastCap(s, pinId, errorMessage, currentRetryCount) ==
    LET nextRetryCount == currentRetryCount + 1
    IN IF nextRetryCount <= maxRetries
       THEN UpdateRow(s, pinId,
                [status |-> "failed", errorMessage |-> errorMessage,
                 retryCount |-> nextRetryCount,
                 nextRetryAt |-> now + backoffMinutes(currentRetryCount)])
       ELSE UpdateRow(s, pinId,
                [status |-> "failed", errorMessage |-> "MaxRetries",
                 retryCount |-> nextRetryCount, nextRetryAt |-> Null])

handlePinError(s, pinId, errorMessage, currentRetryCount) ==
    LET nextRetryCount == currentRetryCount + 1
    IN IF nextRetryCount <= maxRetries
       THEN UpdateRow(s, pinId,
                [status |-> "failed", errorMessage |-> errorMessage,
                 retryCount |-> nextRetryCount,
                 nextRetryAt |-> now + backoffMinutes(currentRetryCount)])
       ELSE UpdateRow(s, pinId,
                [status |-> "failed", errorMessage |-> "MaxRetries",
                 nextRetryAt |-> Null])

\* ----------------------------------------------------------- credit ledger
\* A debit that subtracts without the floor.
deductUserCredits_noFloor(balance, amount) ==
    (IF balance = Null THEN 0 ELSE balance) - amount

\* Math.max(0, (profile.credits_remaining || 0) - amount)
deductUserCredits(balance, amount) ==
    Max(0, (IF balance = Null THEN 0 ELSE balance) - amount)

\* ------------------------------------------------------------------- Init
\* No scheduled pins, no pass running, on a table of the ids `ids`, at instant t.
InitAt(ids, t) ==
    /\ now = t
    /\ store = [j \in ids |-> NoRow]
    /\ pass = [p \in Passes |-> IdlePass]
    /\ userReq = NoReq
    /\ credits = InitCredits
    /\ answers = [j \in ids |-> NoAnswers]
    /\ published = [j \in ids |-> 0]
    /\ debitCount = [j \in ids |-> 0]
    /\ userOps = 0
    /\ removed = {}
    /\ mark = [j \in ids |-> "none"]
    /\ lastCall = NoCall
    /\ sync = IdleSync

Init == InitAt(Jobs, 0)

\* ------------------------------------------------------------------ clock
\* The instants at which something stored falls due.
Deadlines(s) ==
    {s[j].scheduledFor : j \in {i \in DOMAIN s : s[i].exists}}
        \cup {s[j].nextRetryAt : j \in {i \in DOMAIN s : s[i].exists}}

\* Time passes, up to an instant at which a stored deadline falls due.
Tick ==
    /\ \E t \in Deadlines(store) :
          /\ t > now
          /\ t <= MaxTime
          /\ now' = t
    /\ UNCHANGED <<sync, store, pass, userReq, credits, answers, published,
                   debitCount, userOps, removed, mark, lastCall>>

\* -------------------------------------------------------- scheduler pass
\* processScheduledPins up to its first await's answer: the due query.
processScheduledPins(p) ==
    /\ pass[p].pc = "idle"
    /\ \E b \in fetchDue(store, now) :
          pass' = [pass EXCEPT ![p] =
                      IF Len(b) = 0 THEN IdlePass ELSE [pc |-> "claim", batch |-> b]]
    /\ UNCHANGED <<sync, now, store, userReq, credits, answers, published, debitCount,
                   userOps, removed, mark, lastCall>>

\* setInterval(processScheduledPins, 60 s) and the run 5 s after startup.
TimerTick(p) == processScheduledPins(p)

\* POST /api/pinterest/process-scheduled
ManualTrigger(p) == processScheduledPins(p)

\* A loop that ends with the pin it has just processed.
NextPin_stopsLoop(p) == [pass EXCEPT ![p] = IdlePass]

\* The for loop moves to the next pin of the batch, or the pass ends.
NextPin(p) ==
    IF Len(pass[p].batch) > 1
    THEN [pass EXCEPT ![p] = [pc |-> "claim", batch |-> Tail(pass[p].batch)]]
    ELSE [pass EXCEPT ![p] = IdlePass]

\* The write of the claim: update({status: 'posting'}).eq('id', pin.id).
ClaimWrite(s, pinId) == UpdateRow(s, pinId, [status |-> "posting"])

Claim(p) ==
    /\ pass[p].pc = "claim"
    /\ store' = ClaimWrite(store, Head(pass[p].batch).id)
    /\ pass' = [pass EXCEPT ![p].pc = "attempt"]
    /\ UNCHANGED <<sync, now, userReq, credits, answers, published, debitCount,
                   userOps, removed, mark, lastCall>>

\* The claim write answers with an error: the pin is skipped.
ClaimError(p) ==
    /\ pass[p].pc = "claim"
    /\ pass' = NextPin(p)
    /\ UNCHANGED <<sync, now, store, userReq, credits, answers, published, debitCount,
                   userOps, removed, mark, lastCall>>

\* No access token in the joined account: handlePinError with its default count.
NoToken(p) ==
    /\ pass[p].pc = "attempt"
    /\ ~Head(pass[p].batch).token
    /\ store' = handlePinError(store, Head(pass[p].batch).id, "NoToken", 0)
    /\ pass' = NextPin(p)
    /\ UNCHANGED <<sync, now, userReq, credits, answers, published, debitCount,
                   userOps, removed, mark, lastCall>>

\* The posted write without the reset of the retry bookkeeping.
PostedWrite_keepsRetry(s, pinId, hasId) ==
    UpdateRow(s, pinId,
        [status |-> "posted",
         externalId |-> IF hasId THEN "pin" ELSE s[pinId].externalId,
         errorMessage |-> "null"])

\* The write after a 2xx answer leaving the status as it is.
PostedWrite_keepsStatus(s, pinId, hasId) ==
    UpdateRow(s, pinId,
        [externalId |-> IF hasId THEN "pin" ELSE s[pinId].externalId,
         errorMessage |-> "null", retryCount |-> 0, nextRetryAt |-> Null])

\* The posted write giving way to a cancellation.
PostedWrite_yieldsToCancel(s, pinId, hasId) ==
    IF s[pinId].status = "cancelled" THEN s
    ELSE UpdateRow(s, pinId,
             [status |-> "posted",
              externalId |-> IF hasId THEN "pin" ELSE s[pinId].externalId,
              errorMessage |-> "null", retryCount |-> 0, nextRetryAt |-> Null])

\* The write after a 2xx answer of the Publish Service.  An answer without an
\* id (an error object in the body) leaves pinterest_pin_id as it is.
PostedWrite(s, pinId, hasId) ==
    UpdateRow(s, pinId,
        [status |-> "posted",
         externalId |-> IF hasId THEN "pin" ELSE s[pinId].externalId,
         errorMessage |-> "null", retryCount |-> 0, nextRetryAt |-> Null])

\* A 2xx answer of the Publish Service and the posted write after it, as one
\* step: the write is unconditional, so whatever was written to the row between
\* the answer and the write is overwritten by it.
PublishOk(p) ==
    LET pin == Head(pass[p].batch) IN
    /\ pass[p].pc = "attempt"
    /\ pin.token
    /\ \E hasId \in BOOLEAN :
          /\ store' = PostedWrite(store, pin.id, hasId)
          /\ answers' = [answers EXCEPT ![pin.id] =
                            Answered(@, IF hasId THEN "S" ELSE "E")]
          /\ published' = [published EXCEPT ![pin.id] =
                              IF hasId THEN Min(@ + 1, MaxCount) ELSE @]
    /\ pass' = IF pin.credits_deducted THEN NextPin(p)
               ELSE [pass EXCEPT ![p].pc = "credit"]
    /\ UNCHANGED <<sync, now, userReq, credits, debitCount, userOps, removed, mark, lastCall>>

\* A non-2xx answer, or an exception of the call: handlePinError with the
\* retry count the pass read.
PublishFail(p) ==
    LET pin == Head(pass[p].batch) IN
    /\ pass[p].pc = "attempt"
    /\ pin.token
    /\ store' = handlePinError(store, pin.id, "ApiError", pin.retry_count)
    /\ answers' = [answers EXCEPT ![pin.id] = Answered(@, "F")]
    /\ pass' = NextPin(p)
    /\ UNCHANGED <<sync, now, userReq, credits, published, debitCount, userOps,
                   removed, mark, lastCall>>

\* deductUserCredits cannot read or write the balance: it logs the error and
\* returns, and the caller writes credits_deducted: true all the same.
DeductCreditsError(p) ==
    LET pin == Head(pass[p].batch) IN
    /\ pass[p].pc = "credit"
    /\ debitCount' = [debitCount EXCEPT ![pin.id] = Min(@ + 1, MaxCount)]
    /\ store' = UpdateRow(store, pin.id, [creditsDeducted |-> TRUE])
    /\ pass' = NextPin(p)
    /\ UNCHANGED <<sync, now, userReq, credits, answers, published, userOps,
                   removed, mark, lastCall>>

\* if (!pin.credits_deducted): deductUserCredits, then credits_deducted: true.
DeductCredits(p) ==
    LET pin == Head(pass[p].batch) IN
    /\ pass[p].pc = "credit"
    /\ credits' = deductUserCredits(credits, 1)
    /\ debitCount' = [debitCount EXCEPT ![pin.id] = Min(@ + 1, MaxCount)]
    /\ store' = UpdateRow(store, pin.id, [creditsDeducted |-> TRUE])
    /\ pass' = NextPin(p)
    /\ UNCHANGED <<sync, now, userReq, answers, published, userOps, removed, mark, lastCall>>

\* --------------------------------------------------------- user operations
\* How a specification runs the request handlers: whether the request and its
\* answer are kept in lastCall, and how many accepted requests it follows.
BaseMode == [log |-> FALSE, budget |-> MaxUserOps]
OpsMode == [log |-> FALSE, budget |-> OpsBudget]
ApiMode == [log |-> TRUE, budget |-> ApiBudget]

\* A scheduled_for that new Date() turns into an Invalid Date.
InvalidDate == -2

\* A recorded request and its answer.
Call(op, user, job, answer) ==
    [op |-> op, user |-> user, job |-> job, answer |-> answer,
     fields |-> TRUE, sched |-> Null, cred |-> "none",
     recurrence |-> NoRecurrence, status |-> "none", pins |-> {}]

Logged(m, call) == IF m.log THEN call ELSE lastCall

\* .eq('id', id).eq('user_id', user.id).single() finding any user's row.
findPin_anyUser(s, id, user) == s[id].exists

\* .eq('id', id).eq('user_id', user.id).single(): the user's row of that id.
findPin(s, id, user) == s[id].exists /\ s[id].owner = user

\* .update(fields).eq('id', id).eq('user_id', user.id)
UpdateOwnRow(s, id, user, fields) ==
    IF findPin(s, id, user) THEN UpdateRow(s, id, fields) ELSE s

\* An interval that does not convert to a number (a string such as "abc"):
\* it is truthy, and its comparisons with 1 and with 30 are both false.
NotANumber == -3

\* The recurrence check of schedule-pin: made when is_recurring and a
\* recurrence_pattern are both given.  An interval of 0 stands for a missing
\* or falsy one.
validRecurrence(r) ==
    (r.is_recurring /\ r.pattern # NoPattern)
    => /\ r.pattern.type \in {"daily", "weekly", "monthly"}
       /\ ~ \/ r.pattern.interval = 0
            \/ (r.pattern.interval # NotANumber /\ r.pattern.interval < 1)
            \/ (r.pattern.interval # NotANumber /\ r.pattern.interval > 30)

\* The answer of schedule-pin to a request at instant t, its checks in the
\* order of the code.  An Invalid Date passes both comparisons and fails at
\* toISOString(), inside the try block.
scheduleAnswer(t, req) ==
    IF ~req.fields \/ req.sched = Null THEN "400"
    ELSE IF req.sched # InvalidDate /\ req.sched <= t THEN "400"
    ELSE IF req.sched # InvalidDate /\ req.sched > t + YearMinutes THEN "400"
    ELSE IF req.cred = "none" THEN "400"
    ELSE IF ~validRecurrence(req.recurrence) THEN "400"
    ELSE IF req.sched = InvalidDate THEN "500"
    ELSE "200"

\* is_recurring, and recurrence_pattern: is_recurring ? recurrence_pattern : null
storedRecurrence(r) ==
    [is_recurring |-> r.is_recurring,
     pattern |-> IF r.is_recurring THEN r.pattern ELSE NoPattern]

\* POST /api/pinterest/schedule-pin.  cred: what the request's account
\* resolves to ("account": a pinterest_accounts row, "profile": the legacy
\* token of the profile, with no account row to join, "none": nothing).
\* Ids are given out in increasing order and never again after a delete.
schedulePin(m, j, req) ==
    /\ ~store[j].exists
    /\ j \notin removed
    /\ \A i \in DOMAIN store : i < j => (store[i].exists \/ i \in removed)
    /\ LET a == scheduleAnswer(now, req) IN
       /\ store' = IF a = "200"
                   THEN [store EXCEPT ![j] =
                            FullRow(TRUE, req.user, req.sched, req.cred = "account",
                                    storedRecurrence(req.recurrence))]
                   ELSE store
       /\ lastCall' = Logged(m, [Call("schedule", req.user, j, a) EXCEPT
                                    !.fields = req.fields, !.sched = req.sched,
                                    !.cred = req.cred,
                                    !.recurrence = req.recurrence])
    /\ UNCHANGED <<sync, now, pass, userReq, credits, answers, published, debitCount,
                   userOps, removed, mark>>

\* The owner's request with all required fields and no recurrence.
SchedulePin(j, scheduled_for, cred) ==
    schedulePin(BaseMode, j,
        [user |-> Owner, fields |-> TRUE, sched |-> scheduled_for, cred |-> cred,
         recurrence |-> NoRecurrence])

\* GET /api/pinterest/scheduled-pins: the user's rows, of one status if asked.
listPins(m, user, status) ==
    /\ m.log
    /\ lastCall' = [Call("list", user, 0, "200") EXCEPT
                       !.status = status,
                       !.pins = {j \in DOMAIN store :
                                    /\ store[j].exists
                                    /\ store[j].owner = user
                                    /\ (status # "none" => store[j].status = status)}]
    /\ UNCHANGED <<sync, now, store, pass, userReq, credits, answers, published,
                   debitCount, userOps, removed, mark>>

\* The answer of the PUT after its read ("go": it goes on to its write).
updateAnswer(s, t, user, j, scheduled_for) ==
    IF ~findPin(s, j, user) THEN "404"
    ELSE IF s[j].status = "posted" THEN "400"
    ELSE IF scheduled_for # Null /\ scheduled_for # InvalidDate /\ scheduled_for <= t
    THEN "400"
    ELSE IF scheduled_for = InvalidDate THEN "500"
    ELSE "go"

\* PUT /api/pinterest/scheduled-pins/:id, up to the answer of its read: the
\* request is refused (404, 400, 500) or goes on to its write.  Of the request
\* body only scheduled_for is looked at before the write.
updateCheck(m, user, j, scheduled_for, pattern) ==
    /\ userReq.kind = "none"
    /\ LET a == updateAnswer(store, now, user, j, scheduled_for) IN
       IF a # "go"
       THEN /\ lastCall' = Logged(m, [Call("update", user, j, a) EXCEPT
                                         !.sched = scheduled_for,
                                         !.recurrence = [is_recurring |-> FALSE,
                                                         pattern |-> pattern]])
            /\ UNCHANGED <<userReq, userOps>>
       ELSE /\ userOps < m.budget
            /\ userOps' = userOps + 1
            /\ userReq' = [kind |-> "update", job |-> j, user |-> user,
                           sched |-> scheduled_for, pattern |-> pattern]
            /\ UNCHANGED lastCall
    /\ UNCHANGED <<sync, now, store, pass, credits, answers, published, debitCount,
                   removed, mark>>

UpdateCheck(j, scheduled_for) ==
    updateCheck(BaseMode, Owner, j, scheduled_for, NoPattern)

\* An update object that also clears the retry bookkeeping.
UpdateFields_resetsRetry(row, status, scheduled_for, pattern) ==
    [status |-> IF status # "none" THEN status ELSE row.status,
     scheduledFor |-> IF scheduled_for # Null THEN scheduled_for
                      ELSE row.scheduledFor,
     recurrence |-> IF pattern # NoPattern
                    THEN [row.recurrence EXCEPT !.pattern = pattern]
                    ELSE row.recurrence,
     retryCount |-> 0, nextRetryAt |-> Null]

\* The update object built from the request body: a field is written when
\* the body gives it.
UpdateFields(row, status, scheduled_for, pattern) ==
    [status |-> IF status # "none" THEN status ELSE row.status,
     scheduledFor |-> IF scheduled_for # Null THEN scheduled_for
                      ELSE row.scheduledFor,
     recurrence |-> IF pattern # NoPattern
                    THEN [row.recurrence EXCEPT !.pattern = pattern]
                    ELSE row.recurrence]

\* The write of the PUT: update(updates).eq('id', id).eq('user_id', user.id)
\* .select().single(), an error when no row comes back.
updateWrite(m, status) ==
    LET j == userReq.job
        found == findPin(store, j, userReq.user)
    IN
    /\ userReq.kind = "update"
    /\ store' = UpdateOwnRow(store, j, userReq.user,
                    UpdateFields(store[j], status, userReq.sched, userReq.pattern))
    /\ mark' = IF found THEN [mark EXCEPT ![j] = "updated"] ELSE mark
    /\ lastCall' = Logged(m, [Call("update", userReq.user, j,
                                   IF found THEN "200" ELSE "500") EXCEPT
                                 !.sched = userReq.sched, !.status = status,
                                 !.recurrence = [is_recurring |-> FALSE,
                                                 pattern |-> userReq.pattern]])
    /\ userReq' = NoReq
    /\ UNCHANGED <<sync, now, pass, credits, answers, published, debitCount,
                   userOps, removed>>

UpdateWrite(status) == updateWrite(BaseMode, status)

\* The answer of the DELETE after its read.
cancelAnswer(s, user, j) ==
    IF ~findPin(s, j, user) THEN "404"
    ELSE IF s[j].status = "posted" THEN "400"
    ELSE "go"

\* DELETE /api/pinterest/scheduled-pins/:id, up to the answer of its read.
cancelCheck(m, user, j) ==
    /\ userReq.kind = "none"
    /\ LET a == cancelAnswer(store, user, j) IN
       IF a # "go"
       THEN /\ lastCall' = Logged(m, Call("cancel", user, j, a))
            /\ UNCHANGED <<userReq, userOps>>
       ELSE /\ userOps < m.budget
            /\ userOps' = userOps + 1
            /\ userReq' = [NoReq EXCEPT !.kind = "cancel", !.job = j, !.user = user]
            /\ UNCHANGED lastCall
    /\ UNCHANGED <<sync, now, store, pass, credits, answers, published, debitCount,
                   removed, mark>>

CancelCheck(j) == cancelCheck(BaseMode, Owner, j)

\* What a cancel write did, by the row it met: a job in flight, a scheduled job
\* not yet due, or another.
CancelMark(row, t) ==
    IF row.status = "posting" THEN "cancelledPosting"
    ELSE IF row.status = "scheduled" /\ row.scheduledFor > t THEN "cancelledEarly"
    ELSE "cancelled"

\* The write of the DELETE: status 'cancelled' in either branch.
cancelWrite(m) ==
    LET j == userReq.job
        found == findPin(store, j, userReq.user)
    IN
    /\ userReq.kind = "cancel"
    /\ store' = UpdateOwnRow(store, j, userReq.user, [status |-> "cancelled"])
    /\ mark' = IF found THEN [mark EXCEPT ![j] = CancelMark(store[j], now)] ELSE mark
    /\ lastCall' = Logged(m, Call("cancel", userReq.user, j, "200"))
    /\ userReq' = NoReq
    /\ UNCHANGED <<sync, now, pass, credits, answers, published, debitCount,
                   userOps, removed>>

CancelWrite == cancelWrite(BaseMode)

\* The answer of the permanent delete after its read.
permanentDeleteAnswer(s, user, j) ==
    IF ~findPin(s, j, user) THEN "404"
    ELSE IF s[j].status \notin {"cancelled", "posted"} THEN "400"
    ELSE "go"

\* DELETE /api/pinterest/scheduled-pins/:id/permanent, up to the answer of
\* its read.
permanentDeleteCheck(m, user, j) ==
    /\ userReq.kind = "none"
    /\ LET a == permanentDeleteAnswer(store, user, j) IN
       IF a # "go"
       THEN /\ lastCall' = Logged(m, Call("permanentDelete", user, j, a))
            /\ UNCHANGED <<userReq, userOps>>
       ELSE /\ userOps < m.budget
            /\ userOps' = userOps + 1
            /\ userReq' = [NoReq EXCEPT !.kind = "permanentDelete", !.job = j,
                                        !.user = user]
            /\ UNCHANGED lastCall
    /\ UNCHANGED <<sync, now, store, pass, credits, answers, published, debitCount,
                   removed, mark>>

\* The write of the permanent delete: delete().eq('id', id).eq('user_id', user.id).
permanentDeleteWrite(m) ==
    LET j == userReq.job
        found == findPin(store, j, userReq.user)
    IN
    /\ userReq.kind = "permanentDelete"
    /\ store' = IF found THEN [store EXCEPT ![j] = NoRow] ELSE store
    /\ removed' = IF found THEN removed \cup {j} ELSE removed
    /\ lastCall' = Logged(m, Call("permanentDelete", userReq.user, j, "200"))
    /\ userReq' = NoReq
    /\ UNCHANGED <<sync, now, pass, credits, answers, published, debitCount,
                   userOps, mark>>

\* ------------------------------------------------------- analytics refresh
\* metrics.X || 0
OrZero(x) == IF x = Null THEN 0 ELSE x

\* A rate cut to two decimals instead of rounded.
ratePercent_truncates(count, impressions) ==
    IF impressions > 0 THEN (10000 * count) \div impressions ELSE 0

\* The rates at a half of a hundredth whose double product
\* (count / impressions) * 100 * 100 falls just below the half, among the
\* answers used here: 41 / 160 gives 2562.4999999999995 and 23 / 160 gives
\* 1437.4999999999998.
RoundsBelow == {<<41, 160>>, <<23, 160>>}

\* impressions > 0 ? (count / impressions) * 100 : 0, then
\* Math.round(rate * 100) / 100: the rate in hundredths of a percent.
\* Math.round takes a half up, and the double arithmetic before it puts some
\* exact halves just below the half.
ratePercent(count, impressions) ==
    IF impressions > 0
    THEN IF <<count, impressions>> \in RoundsBelow
         THEN (10000 * count) \div impressions
         ELSE (20000 * count + impressions) \div (2 * impressions)
    ELSE 0

\* The update object of a refresh, from the metrics of the Analytics answer.
persistedMetrics(m) ==
    LET impressions == OrZero(m.IMPRESSION)
        outboundClicks == OrZero(m.OUTBOUND_CLICK)
        saves == OrZero(m.SAVE)
        pinClicks == OrZero(m.PIN_CLICK)
    IN [impressions |-> impressions, outbound_clicks |-> outboundClicks,
        saves |-> saves, pin_clicks |-> pinClicks,
        engagement_rate |-> ratePercent(saves + pinClicks, impressions),
        click_through_rate |-> ratePercent(outboundClicks, impressions),
        save_rate |-> ratePercent(saves, impressions)]

\* .eq('status', 'posted').not('pinterest_pin_id', 'is', null)
Posted(s) ==
    {j \in DOMAIN s :
        s[j].exists /\ s[j].status = "posted" /\ s[j].externalId # "null"}

\* ... and .eq('user_id', userId)
UserPosted(s, user) == {j \in Posted(s) : s[j].owner = user}

\* pinterest_accounts(access_token) of a row: the token of the joined account.
TokenOf(row) == IF row.hasAccount THEN row.account ELSE "none"

\* The legacy token of the profile, here of u2 only.
ProfileToken(user) == IF user = "u2" THEN "profile" ELSE "none"

getPinterestAccessTokenForUser(userId, accountId) ==
    IF accountId = "none" THEN ProfileToken(userId)
    ELSE IF accountId \in DOMAIN Accounts /\ Accounts[accountId] = userId
    THEN accountId
    ELSE "none"

\* The subsets of `ids` with k elements.
RECURSIVE Choose(_, _)
Choose(ids, k) ==
    IF k = 0 THEN {{}}
    ELSE IF Cardinality(ids) <= k THEN {ids}
    ELSE LET x == CHOOSE x \in ids : TRUE
         IN {S \cup {x} : S \in Choose(ids \ {x}, k - 1)}
                \cup Choose(ids \ {x}, k)

\* .limit(n) on a query without an order: any n of the rows.
Limited(ids, n) == Choose(ids, Min(n, Cardinality(ids)))

\* The rows of a result as the loop goes through them, here by id.
RECURSIVE InIdOrder(_, _)
InIdOrder(s, ids) ==
    IF ids = {} THEN <<>>
    ELSE LET j == CHOOSE j \in ids : \A k \in ids : j <= k
         IN <<[id |-> j, metrics_last_updated |-> s[j].metricsAt]>>
                \o InIdOrder(s, ids \ {j})

\* The run after its last pin; the requests it made stay on record.
EndSync(r) == [IdleSync EXCEPT !.fetched = r.fetched]

\* The run after the loop over a user's pins: the next user of the timer
\* pass, or the end.
NextSyncUser(r) ==
    IF r.kind = "timer" /\ r.users # <<>>
    THEN [r EXCEPT !.pc = "users", !.user = "none", !.token = "none",
                   !.batch = <<>>]
    ELSE EndSync(r)

\* A loop over the pins that a failure ends, and the pass with it.
NextSyncPin_abortsPass(r) == EndSync(r)

\* The loop over the pins moves to the next pin.
NextSyncPin(r) ==
    IF Len(r.batch) > 1 THEN [r EXCEPT !.batch = Tail(r.batch)]
    ELSE NextSyncUser(r)

\* processAnalyticsSync up to its loop over the users: the posted pins with
\* their joined account, and for each user the account of the first of their
\* rows in the result (usersMap).  The users come in the order of their first
\* rows, which the query leaves open.
processAnalyticsSync ==
    LET U == {store[j].owner : j \in Posted(store)} IN
    /\ sync.pc = "idle"
    /\ U # {}
    /\ \E first \in [U -> Posted(store)],
          us \in {q \in [1..Cardinality(U) -> U] :
                     \A u \in U : \E i \in DOMAIN q : q[i] = u} :
          /\ \A u \in U : store[first[u]].owner = u
          /\ sync' = [IdleSync EXCEPT
                         !.pc = "users", !.kind = "timer",
                         !.users = [i \in 1..Len(us) |->
                                       [user_id |-> us[i],
                                        token |-> TokenOf(store[first[us[i]]])]]]
    /\ UNCHANGED <<now, store, pass, userReq, credits, answers, published,
                   debitCount, userOps, removed, mark, lastCall>>

\* syncUserAnalytics up to its loop over the pins: no token, no refresh;
\* otherwise the user's posted pins, 20 of them at most.
syncUserAnalytics ==
    LET u == Head(sync.users)
        r == [sync EXCEPT !.users = Tail(sync.users)]
    IN
    /\ sync.pc = "users"
    /\ IF u.token = "none"
       THEN sync' = NextSyncUser(r)
       ELSE \E S \in Limited(UserPosted(store, u.user_id), SyncLimit) :
               sync' = IF S = {} THEN NextSyncUser(r)
                       ELSE [r EXCEPT !.pc = "pins", !.user = u.user_id,
                                      !.token = u.token,
                                      !.batch = InIdOrder(store, S)]
    /\ UNCHANGED <<now, store, pass, userReq, credits, answers, published,
                   debitCount, userOps, removed, mark, lastCall>>

\* POST /api/pinterest/sync-analytics up to its loop over the pins: 400
\* without a token, nothing to do without posted pins.
manualAnalyticsSync(user, account_id, force_sync) ==
    LET accessToken == getPinterestAccessTokenForUser(user, account_id) IN
    /\ sync.pc = "idle"
    /\ accessToken # "none"
    /\ \E S \in Limited(UserPosted(store, user), ManualLimit) :
          /\ S # {}
          /\ sync' = [IdleSync EXCEPT
                         !.pc = "pins", !.kind = "manual", !.user = user,
                         !.token = accessToken, !.force = force_sync,
                         !.batch = InIdOrder(store, S)]
    /\ UNCHANGED <<now, store, pass, userReq, credits, answers, published,
                   debitCount, userOps, removed, mark, lastCall>>

\* A staleness gate that a force sync does not open.
skipsPin_ignoresForce(r, pin, t) ==
    /\ pin.metrics_last_updated # Null
    /\ pin.metrics_last_updated >
          t - (IF r.kind = "timer" THEN TwelveHours ELSE TwentyFourHours)

\* The staleness gate: a pin refreshed within the last 12 hours (timer pass)
\* or 24 hours (manual request without force_sync) is skipped.
skipsPin(r, pin, t) ==
    /\ r.kind = "manual" => ~r.force
    /\ pin.metrics_last_updated # Null
    /\ pin.metrics_last_updated >
          t - (IF r.kind = "timer" THEN TwelveHours ELSE TwentyFourHours)

SyncSkip ==
    /\ sync.pc = "pins"
    /\ skipsPin(sync, Head(sync.batch), now)
    /\ sync' = NextSyncPin(sync)
    /\ UNCHANGED <<now, store, pass, userReq, credits, answers, published,
                   debitCount, userOps, removed, mark, lastCall>>

\* The run with the analytics request for its current pin on record.
Fetched(r) ==
    [r EXCEPT !.fetched = @ \cup {[id |-> Head(r.batch).id, token |-> r.token]}]

\* The Analytics answer is ok: the metrics are written to the row, by id.
SyncFetchOk(m) ==
    /\ sync.pc = "pins"
    /\ ~skipsPin(sync, Head(sync.batch), now)
    /\ store' = UpdateRow(store, Head(sync.batch).id,
                    [metrics |-> persistedMetrics(m), metricsAt |-> now])
    /\ sync' = NextSyncPin(Fetched(sync))
    /\ UNCHANGED <<now, pass, userReq, credits, answers, published,
                   debitCount, userOps, removed, mark, lastCall>>

\* The Analytics answer is not ok, or the request throws: nothing is written.
SyncFetchFail ==
    /\ sync.pc = "pins"
    /\ ~skipsPin(sync, Head(sync.batch), now)
    /\ sync' = NextSyncPin(Fetched(sync))
    /\ UNCHANGED <<now, store, pass, userReq, credits, answers, published,
                   debitCount, userOps, removed, mark, lastCall>>
\* ------------------------------------------------------------------- Next
Next ==
    \/ Tick
    \/ \E p \in Passes : TimerTick(p)
    \/ \E p \in Passes : ManualTrigger(p)
    \/ \E p \in Passes : Claim(p)
    \/ \E p \in Passes : ClaimError(p)
    \/ \E p \in Passes : NoToken(p)
    \/ \E p \in Passes : PublishOk(p)
    \/ \E p \in Passes : PublishFail(p)
    \/ \E p \in Passes : DeductCredits(p)
    \/ \E j \in Jobs, cred \in {"account", "profile", "none"} :
          \E t \in {now, now + SchedAhead} : SchedulePin(j, t, cred)
    \/ \E j \in Jobs : \E t \in {Null, now, now + SchedAhead} : UpdateCheck(j, t)
    \/ \E st \in Statuses \cup {"none"} : UpdateWrite(st)
    \/ \E j \in Jobs : CancelCheck(j)
    \/ CancelWrite

Spec == Init /\ [][Next]_vars

\* ---------------------------------------------------------------- SpecOps
\* One scheduler pass at a time, and the owner's requests one after another.
OpsPasses == {1}

OpsSchedulePin(j) ==
    \E cred \in {"account", "profile"} :
        schedulePin(OpsMode, j,
            [user |-> Owner, fields |-> TRUE, sched |-> now + SchedAhead,
             cred |-> cred, recurrence |-> NoRecurrence])

OpsUpdateCheck(j) ==
    \E t \in {Null, now + SchedAhead} : updateCheck(OpsMode, Owner, j, t, NoPattern)

OpsUpdateWrite == \E st \in Statuses \cup {"none"} : updateWrite(OpsMode, st)

NextOps ==
    \/ Tick
    \/ \E p \in OpsPasses : TimerTick(p)
    \/ \E p \in OpsPasses : Claim(p)
    \/ \E p \in OpsPasses : NoToken(p)
    \/ \E p \in OpsPasses : PublishOk(p)
    \/ \E p \in OpsPasses : PublishFail(p)
    \/ \E p \in OpsPasses : DeductCredits(p)
    \/ \E j \in Jobs : OpsSchedulePin(j)
    \/ \E j \in Jobs : OpsUpdateCheck(j)
    \/ OpsUpdateWrite
    \/ \E j \in Jobs : cancelCheck(OpsMode, Owner, j)
    \/ cancelWrite(OpsMode)
    \/ \E j \in Jobs : permanentDeleteCheck(OpsMode, Owner, j)
    \/ permanentDeleteWrite(OpsMode)

SpecOps == Init /\ [][NextOps]_vars

\* ---------------------------------------------------------------- SpecApi
\* The request handlers alone: two users, a table of two ids.  Every request
\* is answered at the same instant.
ApiJobs == {1, 2}

\* A well-formed request of a user at instant t.
GoodRequest(user, t) ==
    [user |-> user, fields |-> TRUE, sched |-> t + SchedAhead, cred |-> "account",
     recurrence |-> NoRecurrence]

\* The recurrence inputs: well-formed ones, ones with a wrong type or
\* interval, one whose interval is not a number, the flag without a pattern,
\* a pattern without the flag.
RecurrenceInputs ==
    {[is_recurring |-> TRUE, pattern |-> [type |-> "daily", interval |-> 1]],
     [is_recurring |-> TRUE, pattern |-> [type |-> "monthly", interval |-> 30]],
     [is_recurring |-> TRUE, pattern |-> [type |-> "hourly", interval |-> 1]],
     [is_recurring |-> TRUE, pattern |-> [type |-> "weekly", interval |-> 0]],
     [is_recurring |-> TRUE, pattern |-> [type |-> "weekly", interval |-> 31]],
     [is_recurring |-> TRUE, pattern |-> [type |-> "daily", interval |-> NotANumber]],
     [is_recurring |-> TRUE, pattern |-> NoPattern],
     [is_recurring |-> FALSE, pattern |-> [type |-> "hourly", interval |-> 31]]}

\* The schedule requests tried at instant t: the well-formed one and the ones
\* that differ from it in one field.
ScheduleRequests(user, t) ==
    {GoodRequest(user, t)}
    \cup {[GoodRequest(user, t) EXCEPT !.fields = FALSE]}
    \cup {[GoodRequest(user, t) EXCEPT !.sched = s] :
            s \in {Null, InvalidDate, t - SchedAhead, t, t + YearMinutes,
                  t + YearMinutes + 1}}
    \cup {[GoodRequest(user, t) EXCEPT !.cred = c] : c \in {"profile", "none"}}
    \cup {[GoodRequest(user, t) EXCEPT !.recurrence = r] : r \in RecurrenceInputs}

\* The first id goes to a request of u1, whatever it is (a refused request
\* leaves the id free); the second to a well-formed request of u2.
ApiSchedulePin ==
    \/ \E req \in ScheduleRequests("u1", now) : schedulePin(ApiMode, 1, req)
    \/ schedulePin(ApiMode, 2, GoodRequest("u2", now))

ApiListPins == \E user \in Users, st \in {"none", "scheduled"} : listPins(ApiMode, user, st)

ApiUpdateCheck(j) ==
    \E user \in Users :
        \/ \E t \in {Null, InvalidDate, now - SchedAhead, now, now + SchedAhead,
                     now + YearMinutes + 1} :
              updateCheck(ApiMode, user, j, t, NoPattern)
        \/ updateCheck(ApiMode, user, j, Null, [type |-> "hourly", interval |-> 31])

ApiUpdateWrite == \E st \in {"none", "posted", "cancelled"} : updateWrite(ApiMode, st)

NextApi ==
    \/ ApiSchedulePin
    \/ ApiListPins
    \/ \E j \in ApiJobs : ApiUpdateCheck(j)
    \/ ApiUpdateWrite
    \/ \E j \in ApiJobs, user \in Users : cancelCheck(ApiMode, user, j)
    \/ cancelWrite(ApiMode)
    \/ \E j \in ApiJobs, user \in Users : permanentDeleteCheck(ApiMode, user, j)
    \/ permanentDeleteWrite(ApiMode)

\* The handlers are followed at one instant, some time after startup.
InitApi == InitAt(ApiJobs, SchedAhead)

SpecApi == InitApi /\ [][NextApi]_vars

\* --------------------------------------------------------------- SpecLive
\* One more job than a batch holds.
LiveJobs == 1..(BatchLimit + 1)
LiveNow == 100

\* A job that has used up its retries and has failed again since.
PermanentlyFailedRow(scheduled_for) ==
    [Row(TRUE, scheduled_for, TRUE) EXCEPT
        !.status = "failed", !.retryCount = maxRetries,
        !.errorMessage = "MaxRetries", !.nextRetryAt = Null]

\* The table some time after BatchLimit jobs, scheduled for minutes 1, 2, ...,
\* have used up their retries, at the instant one more job falls due.
InitLive ==
    /\ now = LiveNow
    /\ store = [j \in LiveJobs |->
                   IF j <= BatchLimit THEN PermanentlyFailedRow(j)
                   ELSE Row(TRUE, LiveNow, TRUE)]
    /\ pass = [p \in Passes |-> IdlePass]
    /\ userReq = NoReq
    /\ credits = InitCredits
    /\ answers = [j \in LiveJobs |->
                     IF j <= BatchLimit THEN OtherAnswers ELSE NoAnswers]
    /\ published = [j \in LiveJobs |-> 0]
    /\ debitCount = [j \in LiveJobs |-> 0]
    /\ userOps = 0
    /\ removed = {}
    /\ mark = [j \in LiveJobs |-> "none"]
    /\ lastCall = NoCall
    /\ sync = IdleSync

\* The passes while the Publish Service keeps refusing the pins.
NextLive ==
    \/ \E p \in Passes : TimerTick(p)
    \/ \E p \in Passes : Claim(p)
    \/ \E p \in Passes : PublishFail(p)

\* The timer keeps firing and every await of a pass is answered.
SpecLive == InitLive /\ [][NextLive]_vars /\ WF_vars(NextLive)

\* --------------------------------------------------------------- SpecCalc
\* deductUserCredits on its own: a profile with any balance, a null one
\* included, debited by any amount.
InitCalc ==
    /\ now = 0
    /\ store = [j \in Jobs |-> NoRow]
    /\ pass = [p \in Passes |-> IdlePass]
    /\ userReq = NoReq
    /\ credits \in {Null} \cup (0..MaxBalance)
    /\ answers = [j \in Jobs |-> NoAnswers]
    /\ published = [j \in Jobs |-> 0]
    /\ debitCount = [j \in Jobs |-> 0]
    /\ userOps = 0
    /\ removed = {}
    /\ mark = [j \in Jobs |-> "none"]
    /\ lastCall = NoCall
    /\ sync = IdleSync

\* One call of deductUserCredits(userId, amount), the balance it read and the
\* amount kept in lastCall.
Debit(amount) ==
    /\ credits' = deductUserCredits(credits, amount)
    /\ lastCall' = [op |-> "debit", balance |-> credits, amount |-> amount]
    /\ UNCHANGED <<sync, now, store, pass, userReq, answers, published, debitCount,
                   userOps, removed, mark>>

NextCalc == \E amount \in 1..MaxAmount : Debit(amount)

SpecCalc == InitCalc /\ [][NextCalc]_vars

\* --------------------------------------------------------------- SpecStop
\* An invocation of processScheduledPins after the process has exited.
ExitedPass == [pc |-> "exited", batch |-> <<>>]

\* SIGTERM or SIGINT: stopScheduler() clears the two intervals and
\* process.exit(0) ends the process in the same handler, with whatever its
\* invocations were awaiting.
Shutdown ==
    /\ \E p \in Passes : pass[p].pc # "exited"
    /\ pass' = [p \in Passes |-> ExitedPass]
    /\ UNCHANGED <<sync, now, store, userReq, credits, answers, published, debitCount,
                   userOps, removed, mark, lastCall>>

NextStop ==
    \/ Tick
    \/ \E j \in Jobs, cred \in {"account", "profile"} :
          SchedulePin(j, now + SchedAhead, cred)
    \/ \E p \in OpsPasses : TimerTick(p)
    \/ \E p \in OpsPasses : Claim(p)
    \/ \E p \in OpsPasses : NoToken(p)
    \/ \E p \in OpsPasses : PublishOk(p)
    \/ \E p \in OpsPasses : PublishFail(p)
    \/ \E p \in OpsPasses : DeductCredits(p)
    \/ Shutdown

SpecStop == Init /\ [][NextStop]_vars

\* --------------------------------------------------------------- SpecSync
SyncJobs == 1..6
SyncNow == 3000

\* The metrics of the Analytics answers: no impressions (with counts, and
\* with nothing at all), rates that need rounding, rates at a half (rounded up, and
\* put below the half by the double arithmetic).
MetricsInputs ==
    {[IMPRESSION |-> 0, OUTBOUND_CLICK |-> 1, SAVE |-> 2, PIN_CLICK |-> 1],
     [IMPRESSION |-> Null, OUTBOUND_CLICK |-> Null, SAVE |-> Null, PIN_CLICK |-> Null],
     [IMPRESSION |-> 3, OUTBOUND_CLICK |-> 2, SAVE |-> 1, PIN_CLICK |-> 1],
     [IMPRESSION |-> 160, OUTBOUND_CLICK |-> 1, SAVE |-> 23, PIN_CLICK |-> 18]}

\* A pin posted some time ago, with the metrics of its last refresh if any.
PostedRow(owner, account, metricsAt) ==
    [FullRow(TRUE, owner, 1, TRUE, NoRecurrence) EXCEPT
        !.status = "posted", !.externalId = "pin", !.creditsDeducted = TRUE,
        !.account = account, !.metricsAt = metricsAt,
        !.metrics = IF metricsAt = Null THEN RowDefaults.metrics
                    ELSE persistedMetrics([IMPRESSION |-> 4, OUTBOUND_CLICK |-> 1,
                                           SAVE |-> 1, PIN_CLICK |-> 1])]

\* A table and no activity: the state between two refreshes.
InitTable(t, rows) ==
    /\ now = t
    /\ store = rows
    /\ pass = [p \in Passes |-> IdlePass]
    /\ userReq = NoReq
    /\ credits = InitCredits
    /\ answers = [j \in DOMAIN rows |-> OtherAnswers]
    /\ published = [j \in DOMAIN rows |-> 0]
    /\ debitCount = [j \in DOMAIN rows |-> 0]
    /\ userOps = 0
    /\ removed = {}
    /\ mark = [j \in DOMAIN rows |-> "none"]
    /\ lastCall = NoCall
    /\ sync = IdleSync

\* u1 has posted pins on two accounts, one never refreshed, one refreshed
\* lately, one refreshed more than 12 hours ago, and a pin still scheduled;
\* u2 has one posted pin on an account and one posted with the token of the
\* profile, without an account.
InitSync ==
    InitTable(SyncNow,
        [j \in SyncJobs |->
            CASE j = 1 -> PostedRow("u1", "a2", Null)
              [] j = 2 -> PostedRow("u1", "a1", SyncNow - 100)
              [] j = 3 -> PostedRow("u1", "a1", SyncNow - TwelveHours - 1)
              [] j = 4 -> PostedRow("u2", "b1", Null)
              [] j = 5 -> [PostedRow("u2", "none", Null) EXCEPT
                              !.hasAccount = FALSE]
              [] OTHER -> FullRow(TRUE, "u1", SyncNow + SchedAhead, TRUE,
                                  NoRecurrence)])

NextSync ==
    \/ processAnalyticsSync
    \/ syncUserAnalytics
    \/ \E user \in Users, account_id \in {"none"} \cup DOMAIN Accounts,
           force_sync \in BOOLEAN :
          manualAnalyticsSync(user, account_id, force_sync)
    \/ SyncSkip
    \/ \E m \in MetricsInputs : SyncFetchOk(m)
    \/ SyncFetchFail

SpecSync == InitSync /\ [][NextSync]_vars

\* -------------------------------------------------------------- SpecStale
\* One more posted pin than a refresh of a user takes.
StaleJobs == 1..(SyncLimit + 1)

\* Twenty pins refreshed lately and one never refreshed.
InitStale ==
    InitTable(SyncNow,
        [j \in StaleJobs |->
            PostedRow("u1", "a1", IF j <= SyncLimit THEN SyncNow - 100 ELSE Null)])

NextStale ==
    \/ processAnalyticsSync
    \/ syncUserAnalytics
    \/ SyncSkip
    \/ \E m \in MetricsInputs : SyncFetchOk(m)
    \/ SyncFetchFail

SpecStale == InitStale /\ [][NextStale]_vars

\* ------------------------------------------------------------ SpecRestart
\* The shutdown signal, received once in the life of the table.
ShutdownOnce ==
    /\ lastCall = NoCall
    /\ \E p \in Passes : pass[p].pc # "exited"
    /\ pass' = [p \in Passes |-> ExitedPass]
    /\ lastCall' = [op |-> "shutdown"]
    /\ UNCHANGED <<sync, now, store, userReq, credits, answers, published,
                   debitCount, userOps, removed, mark>>

\* The process is started again: app.listen calls startScheduler, which sets
\* the interval and the first run of processScheduledPins.
Restart ==
    /\ \A p \in Passes : pass[p].pc = "exited"
    /\ pass' = [p \in Passes |-> IdlePass]
    /\ UNCHANGED <<sync, now, store, userReq, credits, answers, published,
                   debitCount, userOps, removed, mark, lastCall>>

\* What the running process does by itself: time passes, the timer fires, the
\* awaits of a pass are answered, and a stopped process is started again.
RunRestart ==
    \/ Tick
    \/ \E p \in OpsPasses : TimerTick(p)
    \/ \E p \in OpsPasses : Claim(p)
    \/ \E p \in OpsPasses : NoToken(p)
    \/ \E p \in OpsPasses : PublishOk(p)
    \/ \E p \in OpsPasses : PublishFail(p)
    \/ \E p \in OpsPasses : DeductCredits(p)
    \/ Restart

NextRestart ==
    \/ RunRestart
    \/ \E j \in Jobs, cred \in {"account", "profile"} :
          SchedulePin(j, now + SchedAhead, cred)
    \/ ShutdownOnce

\* The timer keeps firing, every await is answered and a stopped process comes
\* back; the owner and the signal are free.
SpecRestart == Init /\ [][NextRestart]_vars /\ WF_vars(RunRestart)

\* ------------------------------------------------------------- SpecLedger
\* One scheduler pass at a time over one job, with a profiles table that may
\* answer deductUserCredits with an error.
NextLedger ==
    \/ Tick
    \/ \E j \in Jobs, cred \in {"account", "profile"} :
          SchedulePin(j, now + SchedAhead, cred)
    \/ \E p \in OpsPasses : TimerTick(p)
    \/ \E p \in OpsPasses : Claim(p)
    \/ \E p \in OpsPasses : NoToken(p)
    \/ \E p \in OpsPasses : PublishOk(p)
    \/ \E p \in OpsPasses : PublishFail(p)
    \/ \E p \in OpsPasses : DeductCredits(p)
    \/ \E p \in OpsPasses : DeductCreditsError(p)

SpecLedger == Init /\ [][NextLedger]_vars

\* ---------------------------------------------------------------- SpecMix
\* The analytics timer next to the scheduler and the owner: one job, one
\* scheduler pass at a time, a cancel of the owner, and the timer-driven
\* refresh of the job once it is posted.
NextMix ==
    \/ Tick
    \/ \E j \in Jobs : SchedulePin(j, now + SchedAhead, "account")
    \/ \E p \in OpsPasses : TimerTick(p)
    \/ \E p \in OpsPasses : Claim(p)
    \/ \E p \in OpsPasses : PublishOk(p)
    \/ \E p \in OpsPasses : PublishFail(p)
    \/ \E p \in OpsPasses : DeductCredits(p)
    \/ \E j \in Jobs : CancelCheck(j)
    \/ CancelWrite
    \/ processAnalyticsSync
    \/ syncUserAnalytics
    \/ SyncSkip
    \/ \E m \in MetricsInputs : SyncFetchOk(m)
    \/ SyncFetchFail

SpecMix == Init /\ [][NextMix]_vars
\* ================================================================== claims
\* The job a pass is working on.
Cur(p) == Head(pass[p].batch).id

\* The state handlePinError leaves once the retries are used up.
PermanentlyFailed(row) ==
    /\ row.exists
    /\ row.status = "failed"
    /\ row.errorMessage = "MaxRetries"
    /\ row.retryCount = maxRetries
    /\ row.nextRetryAt = Null

\* C1: of two passes that fetched the same due job and both wrote the claim,
\* only one goes on to call the Publish Service: never are two passes past
\* their claim write, about to publish the same job.
C1_OneClaimWins ==
    \A p, q \in Passes :
        (p # q /\ pass[p].pc = "attempt" /\ pass[q].pc = "attempt"
           /\ Head(pass[p].batch).token /\ Head(pass[q].batch).token)
        => Cur(p) # Cur(q)

\* C2: with only scheduler passes acting (timer ticks and manual triggers, in
\* any interleaving), the Publish Service creates at most one pin per job.
C2_PublishedAtMostOnce ==
    userOps = 0 => \A j \in Jobs : published[j] <= 1

\* C3: with only scheduler passes acting (overlapping ones included),
\* deductUserCredits is invoked at most once per job.
C3_DebitAtMostOnce ==
    userOps = 0 => \A j \in Jobs : debitCount[j] <= 1

\* C4: a job that failed again at retryCount = 3 (permanently failed) is not
\* in the result of the due query, at any later instant.
C4_PermanentlyFailedNotDue ==
    \A j \in Jobs : PermanentlyFailed(store[j]) => j \notin DueSet(store, now)

\* C5: every job the due query of a pass returns has scheduledFor <= now, has
\* nextRetryAt null or <= now, and is not posted, cancelled or posting.
C5_DueQuerySound ==
    [][\A p \in Passes :
          (pass[p].pc = "idle" /\ pass'[p].pc = "claim")
          => \A i \in 1..Len(pass'[p].batch) :
                LET row == store[pass'[p].batch[i].id] IN
                /\ row.exists
                /\ row.scheduledFor <= now
                /\ (row.nextRetryAt # Null => row.nextRetryAt <= now)
                /\ row.status \notin {"posted", "cancelled", "posting"}]_vars

\* C5 witness: a pass has just fetched a failed job whose retry time has come.
C5_Witness ==
    \E p \in Passes :
        /\ pass[p].pc = "claim"
        /\ store[Cur(p)].status = "failed"
        /\ store[Cur(p)].nextRetryAt # Null
        /\ store[Cur(p)].nextRetryAt <= now

\* C6: once a job is posted or cancelled, no step changes its status.
C6_TerminalAbsorbing ==
    [][\A j \in Jobs :
          (store[j].exists /\ store[j].status \in {"posted", "cancelled"}
             /\ store'[j].exists)
          => store'[j].status = store[j].status]_vars

\* C7: the retryCount of every job is between 0 and 3.
C7_RetryCountBounded ==
    \A j \in Jobs : store[j].retryCount \in 0..maxRetries

\* C7 witness: a job failed again at the cap; its count stayed at 3.
C7_Witness ==
    \E j \in Jobs : PermanentlyFailed(store[j])

\* C8: a write that records a failure with a retry pending (status failed, a
\* new retryCount or nextRetryAt, nextRetryAt not null) sets retryCount in
\* 1..3 and nextRetryAt = now + 5 * 3^(retryCount - 1), later than now.
C8_BackoffSchedule ==
    [][\A j \in Jobs :
          (/\ store'[j].exists
           /\ store'[j].status = "failed"
           /\ store'[j].nextRetryAt # Null
           /\ \/ store'[j].nextRetryAt # store[j].nextRetryAt
              \/ store'[j].retryCount # store[j].retryCount)
          => /\ store'[j].retryCount \in 1..maxRetries
             /\ store'[j].nextRetryAt = now + 5 * 3 ^ (store'[j].retryCount - 1)
             /\ store'[j].nextRetryAt > now]_vars

\* C8 witness: a third failure was recorded, its retry 45 minutes ahead.
C8_Witness ==
    \E j \in Jobs :
        /\ store[j].status = "failed"
        /\ store[j].retryCount = 3
        /\ store[j].nextRetryAt = now + 45
        /\ answers[j] = [fails |-> 3, then |-> "none"]

C10_FourFailures ==
    [][\A p \in Passes :
          (/\ pass[p].pc = "attempt"
           /\ pass'[p] # pass[p]
           /\ answers[Cur(p)] = [fails |-> 3, then |-> "none"]
           /\ answers'[Cur(p)] = [fails |-> 4, then |-> "none"]
           /\ store'[Cur(p)].exists)
          => /\ store'[Cur(p)].status = "failed"
             /\ store'[Cur(p)].nextRetryAt = Null
             /\ store'[Cur(p)].retryCount = maxRetries
             /\ store'[Cur(p)].errorMessage = "MaxRetries"
             /\ ~store'[Cur(p)].creditsDeducted
             /\ debitCount'[Cur(p)] = 0]_vars

\* C11: every change of a job's status into posted or failed starts from
\* posting, and every change into posting is the claim write of a scheduler
\* pass on a scheduled or failed job.
C11_NoSkipOfPosting ==
    [][\A j \in Jobs :
          (store[j].exists /\ store'[j].exists
             /\ store'[j].status # store[j].status)
          => /\ store'[j].status \in {"posted", "failed"}
                   => store[j].status = "posting"
             /\ store'[j].status = "posting"
                   => /\ store[j].status \in {"scheduled", "failed"}
                      /\ \E p \in Passes : /\ pass[p].pc = "claim"
                                            /\ pass'[p].pc = "attempt"
                                            /\ Cur(p) = j]_vars

C13_CancelledNeverRuns ==
    [][\A j \in Jobs :
          (mark[j] = "cancelledEarly" /\ mark'[j] = "cancelledEarly")
          => /\ published'[j] = published[j]
             /\ \A p \in Passes :
                   (pass[p].pc = "idle" /\ pass'[p].pc = "claim")
                   => \A i \in 1..Len(pass'[p].batch) : pass'[p].batch[i].id # j]_vars


\* C14: a cancel write that meets a job in posting sets its status to cancelled
\* and leaves every scheduler pass where it is, the one holding the job
\* included; the step that ends an attempt on a job cancelled in the meantime
\* leaves the status posted after a 2xx answer and failed after an error.
C14_AttemptOutlivesCancel ==
    [][/\ \A j \in Jobs :
            (userReq.kind = "cancel" /\ userReq.job = j /\ userReq' = NoReq
                /\ store[j].exists /\ store[j].status = "posting")
            => /\ store'[j].status = "cancelled"
               /\ mark'[j] = "cancelledPosting"
               /\ pass' = pass
       /\ \A p \in Passes :
            (pass[p].pc = "attempt" /\ store[Cur(p)].exists
                /\ store[Cur(p)].status = "cancelled")
            => /\ PublishOk(p) => store'[Cur(p)].status = "posted"
               /\ (PublishFail(p) \/ NoToken(p)) => store'[Cur(p)].status = "failed"]_vars

C14_Witness ==
    \E j \in Jobs :
        /\ mark[j] = "cancelledPosting"
        /\ store[j].exists
        /\ store[j].status = "posted"
        /\ published[j] = 1
        /\ userOps = 1

\* C15: the write of a user update never changes a job whose status is posted
\* at the moment of the write, whatever the scheduler did since the update
\* read the job.
C15_PostedNeverUpdated ==
    [][\A j \in Jobs :
          (userReq.kind = "update" /\ userReq.job = j /\ userReq' = NoReq
              /\ store[j].exists /\ store[j].status = "posted")
          => store'[j] = store[j]]_vars

\* C16: a job leaves the store only in the write of a permanent delete for
\* that job, and its status at that moment is cancelled or posted.
C16_RemovedOnlyWhenCancelledOrPosted ==
    [][\A j \in Jobs :
          (store[j].exists /\ ~store'[j].exists)
          => /\ userReq.kind = "permanentDelete"
             /\ userReq.job = j
             /\ store[j].status \in {"cancelled", "posted"}]_vars

\* C17: a job enters the store only by an enqueue request that has its required
\* fields, a scheduledFor later than now and at most one year ahead, a usable
\* credential and, if it has a recurrence, one of type daily, weekly or monthly
\* with an interval in 1..30; a refused enqueue request leaves the store as it is.
C17_EnqueueValidated ==
    [][/\ \A j \in ApiJobs :
            (~store[j].exists /\ store'[j].exists)
            => /\ lastCall'.op = "schedule"
               /\ lastCall'.job = j
               /\ lastCall'.answer = "200"
               /\ lastCall'.fields
               /\ lastCall'.sched \notin {Null, InvalidDate}
               /\ lastCall'.sched > now
               /\ lastCall'.sched <= now + YearMinutes
               /\ lastCall'.cred # "none"
               /\ (lastCall'.recurrence.is_recurring
                      /\ lastCall'.recurrence.pattern # NoPattern)
                   => /\ lastCall'.recurrence.pattern.type
                            \in {"daily", "weekly", "monthly"}
                      /\ lastCall'.recurrence.pattern.interval \in 1..30
       /\ (lastCall' # lastCall /\ lastCall'.op = "schedule"
                /\ lastCall'.answer # "200")
            => store' = store]_vars

\* C18: the write of a user update leaves the job with a scheduledFor at most
\* one year after the instant of the write and with a recurrence pattern that
\* is absent or of type daily, weekly or monthly with an interval in 1..30.
C18_UpdateValidated ==
    [][\A j \in ApiJobs :
          (userReq.kind = "update" /\ userReq.job = j /\ userReq' = NoReq
              /\ store'[j].exists)
          => /\ store'[j].scheduledFor <= now + YearMinutes
             /\ store'[j].recurrence.pattern # NoPattern
                 => /\ store'[j].recurrence.pattern.type
                          \in {"daily", "weekly", "monthly"}
                    /\ store'[j].recurrence.pattern.interval \in 1..30]_vars

\* C19: an update, a cancel or a permanent delete asked by a user who does not
\* own the job is answered not-found and leaves the store as it is, no write
\* of a user request changes a job of another user, and a list answers with
\* jobs of the requesting user only.
C19_OwnershipEnforced ==
    [][/\ \A j \in ApiJobs :
            (lastCall' # lastCall
                /\ lastCall'.op \in {"update", "cancel", "permanentDelete"}
                /\ lastCall'.job = j /\ store[j].exists
                /\ store[j].owner # lastCall'.user)
            => lastCall'.answer = "404" /\ store' = store
       /\ \A j \in ApiJobs :
            (store[j].exists /\ store'[j] # store[j])
            => userReq.kind # "none" /\ userReq.user = store[j].owner
       /\ (lastCall' # lastCall /\ lastCall'.op = "list")
            => \A j \in lastCall'.pins :
                  store[j].exists /\ store[j].owner = lastCall'.user]_vars

C19_Witness ==
    /\ lastCall.op \in {"update", "cancel", "permanentDelete"}
    /\ lastCall.answer = "404"
    /\ store[lastCall.job].exists
    /\ store[lastCall.job].owner # lastCall.user
    /\ \A j \in ApiJobs : store[j].exists

\* C20: with the timer firing and every step of a pass answered, a job that is
\* scheduled and due is eventually claimed, whatever the other jobs of the
\* store do.
C20_EligibleEventuallyClaimed ==
    \A j \in LiveJobs :
        (store[j].exists /\ store[j].status = "scheduled"
            /\ store[j].scheduledFor <= now)
        ~> (store[j].status # "scheduled")

\* C25: an attempt that finds no access token counts as a failure like any
\* other: when the pass has read the job's current retryCount, it raises the
\* count by one and sets the next retry 5, 15, 45 minutes ahead, and once the
\* count has reached the cap it leaves the job failed with no next retry.
C25_NoCredentialRetries ==
    [][\A p \in Passes :
          (NoToken(p) /\ store[Cur(p)].exists
              /\ Head(pass[p].batch).retry_count = store[Cur(p)].retryCount)
          => LET row == store[Cur(p)]
                 after == store'[Cur(p)]
             IN /\ after.status = "failed"
                /\ IF row.retryCount < maxRetries
                   THEN /\ after.retryCount = row.retryCount + 1
                        /\ after.nextRetryAt = now + backoffMinutes(row.retryCount)
                   ELSE after.nextRetryAt = Null]_vars

\* C26: a job that the scheduler has left posted, with no user request having
\* written it, holds the externalId the Publish Service returned.
C26_PostedHasExternalId ==
    \A j \in Jobs :
        (store[j].exists /\ store[j].status = "posted" /\ mark[j] = "none")
        => store[j].externalId # "null"

C28_SequentialOrderedBatch ==
    /\ \A p \in Passes :
          /\ Len(pass[p].batch) <= BatchLimit
          /\ \A i, k \in 1..Len(pass[p].batch) :
                i < k => store[pass[p].batch[i].id].scheduledFor
                            <= store[pass[p].batch[k].id].scheduledFor
    /\ Cardinality({j \in LiveJobs : store[j].status = "posting"})
          <= Cardinality({p \in Passes : pass[p].pc = "attempt"})

C28_Witness ==
    \E p \in Passes :
        /\ pass[p].pc = "attempt"
        /\ Len(pass[p].batch) = BatchLimit
        /\ store[Cur(p)].status = "posting"
        /\ Cardinality(DueSet(store, now)) = BatchLimit

\* C24: after a debit the stored balance is max(0, balance - amount) for the
\* balance the debit read: it is never negative, and it is balance - amount
\* whenever the balance covered the amount.
C24_DebitFlooredAtZero ==
    lastCall.op = "debit"
    => /\ credits >= 0
       /\ credits = Max(0, Max(0, lastCall.balance) - lastCall.amount)
       /\ lastCall.balance >= lastCall.amount
            => credits = lastCall.balance - lastCall.amount

C24_Witness ==
    /\ lastCall.op = "debit"
    /\ lastCall.balance > 0
    /\ lastCall.balance < lastCall.amount
    /\ credits = 0

\* C21: once the process has exited on a shutdown signal, no job is in
\* posting: an attempt in flight at the signal has written its result.
C21_NoPostingAfterShutdown ==
    (\A p \in Passes : pass[p].pc = "exited")
    => \A j \in Jobs : store[j].exists => store[j].status # "posting"

\* C22: in every metrics record a refresh has persisted (timer pass or manual
\* request), each of the engagement, click-through and save rates is 0 when
\* impressions = 0, and otherwise count / impressions * 100 to the nearest
\* hundredth, with count = saves + pin clicks, outbound clicks and saves.
\* Rates are in hundredths of a percent.
C22_RatesRounded ==
    \A j \in DOMAIN store :
        (store[j].exists /\ store[j].metricsAt # Null)
        => LET m == store[j].metrics IN
           \A rc \in {<<m.engagement_rate, m.saves + m.pin_clicks>>,
                       <<m.click_through_rate, m.outbound_clicks>>,
                       <<m.save_rate, m.saves>>} :
               IF m.impressions = 0 THEN rc[1] = 0
               ELSE /\ 2 * (rc[1] * m.impressions - 10000 * rc[2]) <= m.impressions
                    /\ 2 * (10000 * rc[2] - rc[1] * m.impressions) <= m.impressions

C22_Witness ==
    \E j, k \in DOMAIN store :
        /\ store[j].metricsAt = now /\ store[k].metricsAt = now
        /\ store[j].metrics.impressions = 0 /\ store[j].metrics.saves > 0
        /\ store[j].metrics.save_rate = 0
        /\ store[k].metrics.impressions = 3 /\ store[k].metrics.saves = 1
        /\ store[k].metrics.save_rate = 3333
        /\ store[k].metrics.engagement_rate = 6667

\* C23: a manual analytics sync works on the requesting owner's jobs only:
\* every job it selected is a posted job of that owner with an externalId,
\* and each of its steps leaves the rows of every other owner as they were.
\* With force set no selected job is skipped: each step of the loop requests
\* the metrics of the job at hand, whatever its metricsLastUpdated.
C23_ManualSyncOwnJobsUngated ==
    [][(sync.pc = "pins" /\ sync.kind = "manual")
       => /\ \A i \in 1..Len(sync.batch) :
               /\ sync.batch[i].id \in Posted(store)
               /\ store[sync.batch[i].id].owner = sync.user
          /\ \A j \in DOMAIN store :
               store'[j] # store[j] => store[j].owner = sync.user
          /\ sync.force
               => \E f \in sync'.fetched : f.id = Head(sync.batch).id]_vars

C23_Witness ==
    /\ sync.pc = "pins" /\ sync.kind = "manual" /\ sync.force
    /\ sync.user = "u1"
    /\ \E f \in sync.fetched : f.id = 2
    /\ store[2].metricsAt = now
    /\ store[4].metricsAt = Null

\* C30: in a timer-driven analytics pass every request for the metrics of a
\* job is made with the credential of the account that owns the job.
C30_OwnAccountCredential ==
    [][sync.kind = "timer"
       => \A f \in sync'.fetched \ sync.fetched :
              f.token = TokenOf(store[f.id])]_vars

\* C29: in a timer-driven analytics pass the jobs selected for an owner with
\* a credential come from the stale set (metricsLastUpdated null or not
\* within the last 12 hours): metrics are requested for stale jobs only, and
\* the selection holds min(20, number of stale jobs) stale jobs of the owner.
C29_SelectedFromStaleSet ==
    [][sync.kind = "timer"
       => /\ \A f \in sync'.fetched \ sync.fetched :
               ~(/\ store[f.id].metricsAt # Null
                 /\ store[f.id].metricsAt > now - TwelveHours)
          /\ (sync.pc = "users" /\ Head(sync.users).token # "none")
               => LET stale == {j \in UserPosted(store, Head(sync.users).user_id) :
                                   ~(/\ store[j].metricsAt # Null
                                     /\ store[j].metricsAt > now - TwelveHours)}
                      selected == {sync'.batch[i].id : i \in 1..Len(sync'.batch)}
                  IN Cardinality(selected \cap stale)
                        = Min(SyncLimit, Cardinality(stale))]_vars

\* C31: a failure for one item does not end an analytics pass.  An owner
\* without a credential is skipped with no write, and the pass goes on with
\* the next owner; a failed analytics request leaves the job's metrics and
\* metricsLastUpdated as they were, and the pass goes on with the next job of
\* the owner, or the next owner after the owner's last job.
C31_AnalyticsPassSurvivesFailure ==
    [][/\ (sync.pc = "users" /\ Head(sync.users).token = "none")
          => /\ store' = store
             /\ IF Len(sync.users) > 1
                THEN sync'.pc = "users" /\ sync'.users = Tail(sync.users)
                ELSE sync'.pc = "idle"
       /\ SyncFetchFail
          => /\ store' = store
             /\ IF Len(sync.batch) > 1
                THEN sync'.pc = "pins" /\ sync'.batch = Tail(sync.batch)
                ELSE IF sync.users # <<>>
                THEN sync'.pc = "users" /\ sync'.users = sync.users
                ELSE sync'.pc = "idle"]_vars

C31_Witness ==
    /\ sync.kind = "timer" /\ sync.pc = "pins"
    /\ sync.user = "u1" /\ sync.users = <<>>
    /\ \A f \in sync.fetched : store[f.id].owner = "u1"
    /\ \E f \in sync.fetched : f.id = 1
    /\ store[1].metricsAt = Null
    /\ Head(sync.batch).id = 3

\* C32: with the timer firing, every await answered and a stopped process
\* started again, a job that is in posting eventually is posted or failed.
C32_PostingEventuallyResolved ==
    \A j \in Jobs :
        (store[j].exists /\ store[j].status = "posting")
        ~> (store[j].status \in {"posted", "failed"})

\* C33: the write of a claim turns a job into posting only if the stored row,
\* at that instant, is scheduled or failed with scheduledFor <= now: a cancel
\* or an update to a later time made since the pass fetched its batch keeps
\* the pass from claiming the job.
C33_ClaimChecksStoredRow ==
    [][\A p \in Passes :
          (Claim(p) /\ store'[Cur(p)].exists)
          => /\ store[Cur(p)].status \in {"scheduled", "failed"}
             /\ store[Cur(p)].scheduledFor <= now]_vars

\* C34: creditsDeducted becomes true on a job only with a debit of the owner's
\* balance: in the step that sets it, a positive balance goes down by one.
C34_FlagMeansDebited ==
    [][\A j \in Jobs :
          (store[j].exists /\ ~store[j].creditsDeducted
             /\ store'[j].creditsDeducted /\ credits > 0)
          => credits' = credits - 1]_vars

\* C35: a write of an analytics refresh goes to a job whose status is posted
\* and changes nothing of it but the metrics fields and metricsLastUpdated;
\* a refresh step without a write changes no job at all.
C35_RefreshWritesMetricsOnly ==
    [][/\ (\E m \in MetricsInputs : SyncFetchOk(m))
          => \A j \in DOMAIN store :
                store'[j] # store[j]
                => /\ store[j].status = "posted"
                   /\ store'[j] = [store[j] EXCEPT
                                      !.metrics = store'[j].metrics,
                                      !.metricsAt = store'[j].metricsAt]
       /\ (SyncSkip \/ SyncFetchFail \/ syncUserAnalytics
             \/ processAnalyticsSync)
          => store' = store]_vars

\* C36: the write of a user update or cancel leaves retryCount, nextRetryAt,
\* errorMessage, creditsDeducted and externalId of every job as they were, and
\* a pass fetches a job only when its scheduledFor and its nextRetryAt, if
\* any, have both passed: a failed job that was rescheduled waits for both.
C36_UserWritesKeepBookkeeping ==
    [][/\ ((\E st \in Statuses \cup {"none"} : UpdateWrite(st)) \/ CancelWrite)
          => \A j \in Jobs :
                /\ store'[j].retryCount = store[j].retryCount
                /\ store'[j].nextRetryAt = store[j].nextRetryAt
                /\ store'[j].errorMessage = store[j].errorMessage
                /\ store'[j].creditsDeducted = store[j].creditsDeducted
                /\ store'[j].externalId = store[j].externalId
       /\ \A p \in Passes :
             (pass[p].pc = "idle" /\ pass'[p].pc = "claim")
             => \A i \in 1..Len(pass'[p].batch) :
                   LET row == store[pass'[p].batch[i].id] IN
                   /\ row.scheduledFor <= now
                   /\ row.nextRetryAt = Null \/ row.nextRetryAt <= now]_vars

C36_Witness ==
    \E j \in Jobs :
        /\ store[j].status = "failed" /\ mark[j] = "updated"
        /\ store[j].retryCount = 2
        /\ store[j].scheduledFor <= now /\ store[j].scheduledFor > SchedAhead
        /\ store[j].nextRetryAt > now
        /\ DueSet(store, now) = {}
        /\ \A p \in Passes : pass[p].pc = "idle"
====
